---------------------------- MODULE Spec2Model ----------------------------
(***************************************************************************)
(* stroma-streama (src/main.go): one capture->encode loop (setupAudio)     *)
(* fans Opus frames out to WebRTC peers.  Every peer (initConn) owns a     *)
(* 10-slot frame channel drained by its sender goroutine, and an atomic    *)
(* ConnectionState written by the OnConnectionStateChange callback and     *)
(* read by the broadcast loop.  New peers reach the loop through the       *)
(* unbuffered channel clientConnected.                                     *)
(*                                                                         *)
(* Frames are identified by their production index (the value of produced  *)
(* after the capture read that made them).                                 *)
(*                                                                         *)
(* Peers are created by the signaling handler (handleClient), which        *)
(* answers one POST with a stream of JSON objects: the SDP answer, then    *)
(* the ICE candidates its OnICECandidate callback passes over the          *)
(* unbuffered channel iceCandidates.  Spec follows the audio side for two  *)
(* peers and takes a handler's call of initConn as one step; HandlerSpec   *)
(* follows one request through the handler; SigSpec follows that request   *)
(* and the audio side together; LiveSpec follows the audio side within     *)
(* smaller bounds and FairSpec adds the scheduler's fairness to it, as     *)
(* JoinSpec does within its own bounds.  LogSpec and SkipSpec follow one   *)
(* peer together with what the process logs and with the entries the       *)
(* fan-out has skipped; the other specifications leave track as it is.     *)
(***************************************************************************)
EXTENDS Integers, Sequences, FiniteSets, TLC

(* ------------------------------ bounds --------------------------------- *)
\* capture reads the model follows
MaxFrames == 5
\* connection-state changes the WebRTC stack reports, all peers together
MaxEvents == 3
\* ICE candidates the gatherer finds for one request
MaxCandidates == 2
\* capture reads and state changes SigSpec follows
SigMaxFrames == 2
SigMaxEvents == 2
\* capture reads and state changes LiveSpec and FairSpec follow
LiveMaxFrames == 3
LiveMaxEvents == 3
\* capture reads and state changes LogSpec follows
LogMaxFrames == 3
LogMaxEvents == 3
\* capture reads and state changes JoinSpec follows
JoinMaxFrames == 2
JoinMaxEvents == 2
\* capture reads and state changes SkipSpec follows: a peer that is registered
\* twice, skipped, closed and reported CONNECTED again takes five reports
SkipMaxFrames == 3
SkipMaxEvents == 5

(* ------------------------- program constants --------------------------- *)
ConnectionStateDisconnected == 0
ConnectionStateConnected == 1
ConnectionStateClosed == 2
\* frames := make(chan []byte, 10)
QueueCap == 10

\* the peers a run may create (one initConn each)
Peers == {"a", "b"}
\* webrtc.PeerConnectionState values the callback's switch has a case for
PCS == {"connected", "disconnected", "failed", "closed"}
\* the peer of the request HandlerSpec and SigSpec follow
ReqPeer == "a"
\* r.Method, and whether r.Body decodes as JSON
Methods == {"POST", "GET"}
Bodies == {"offer", "garbage"}
\* the places handleClient returns from
ReturnSites == {"ret404", "ret400", "retNewPeerConnection", "retInitConn",
                "retSetRemoteDescription", "retCreateAnswer",
                "retSetLocalDescription", "retFlusher", "retEncodeAnswer",
                "retCtxDone", "retIceClosed", "retCandidateError"}

VARIABLES
    created,      \* created[p]: initConn has run for p
    state,        \* state[p]: *ConnectionState of p's conn
    frames,       \* frames[p]: contents of conn.frames, production indices
    chClosed,     \* chClosed[p]: conn.frames has been closed
    senderPc,     \* senderPc[p]: "none" | "recv" | "done"
    lastWritten,  \* lastWritten[p]: index of the last frame given to WriteSample, 0 if none
    pending,      \* pending[p]: CONNECTED callbacks blocked in clientConnected <- conn
    clients,      \* clients: id -> peer (map[uint64]*conn)
    stats,        \* stats: id -> [sent, dropped] (map[uint64]*clientStat)
    nextID,
    started,      \* the loop's flag
    running,      \* capture sessions active on the device (Start without Abort/Close)
    loopPc,       \* "top" | "wait" | "fanout" | "exited" | "panic" | "fatal"
    todo,         \* ids the current range over clients has not reached yet
    produced,     \* frames read and encoded so far
    cancelled,    \* ctx is done
    events,       \* state changes reported so far
    closeCalls,   \* closeCalls[p]: close(conn.frames) calls made on p's channel
    rtcpPc,       \* rtcpPc[p]: the RTCP drain of p: "none" | "read" | "done"
    req,          \* the request: [method, json]
    hPc,          \* position of handleClient: "none" before the request, a return site at the end
    status,       \* the status code the ResponseWriter has committed, 0 if none yet
    body,         \* what the handler has written to the response, in order
    flushed,      \* number of items of body that flusher.Flush() has pushed out
    bodyRead,     \* r.Body has been read
    gathering,    \* SetLocalDescription has started the ICE agent
    icePc,        \* OnICECandidate: "idle" | "sending" (blocked in iceCandidates <- i) | "closed"
    iceCount,     \* candidates the gatherer has passed to OnICECandidate
    reqDone,      \* r.Context() is done
    currentClients, \* the gauge streama_current_clients
    totalClients,   \* the counter streama_total_clients
    track         \* what the process has logged and what the fan-out has read, where a
                  \* specification follows it: [printStats, lastStatsOutput, statLines,
                  \* fatalLog, writeErr, skipped, written]

vars == <<created, state, frames, chClosed, senderPc, lastWritten, pending,
          clients, stats, nextID, started, running, loopPc, todo, produced,
          cancelled, events, closeCalls, rtcpPc, req, hPc, status, body,
          flushed, bodyRead, gathering, icePc, iceCount, reqDone,
          currentClients, totalClients, track>>

peerVars == <<created, state, frames, chClosed, senderPc, lastWritten, pending, closeCalls>>
loopVars == <<clients, stats, nextID, started, running, loopPc, todo, produced>>
\* the state of one request: handleClient's locals, its response, its ICE callback
sigVars == <<req, hPc, status, body, flushed, bodyRead, gathering, icePc, iceCount, reqDone>>
metricVars == <<currentClients, totalClients>>

\* log.Fatal and an unrecovered panic end the process: no goroutine runs on
Alive == loopPc \notin {"panic", "fatal"}

Init ==
    /\ created = [p \in Peers |-> FALSE]
    /\ state = [p \in Peers |-> ConnectionStateDisconnected]
    /\ frames = [p \in Peers |-> <<>>]
    /\ chClosed = [p \in Peers |-> FALSE]
    /\ senderPc = [p \in Peers |-> "none"]
    /\ lastWritten = [p \in Peers |-> 0]
    /\ pending = [p \in Peers |-> 0]
    /\ clients = <<>>
    /\ stats = <<>>
    /\ nextID = 0
    /\ started = FALSE
    /\ running = 0
    /\ loopPc = "top"
    /\ todo = {}
    /\ produced = 0
    /\ cancelled = FALSE
    /\ events = 0
    /\ closeCalls = [p \in Peers |-> 0]
    /\ rtcpPc = [p \in Peers |-> "none"]
    /\ req = [method |-> "POST", json |-> "offer"]
    /\ hPc = "none"
    /\ status = 0
    /\ body = <<>>
    /\ flushed = 0
    /\ bodyRead = FALSE
    /\ gathering = FALSE
    /\ icePc = "idle"
    /\ iceCount = 0
    /\ reqDone = FALSE
    /\ currentClients = 0
    /\ totalClients = 0
    /\ track = [printStats |-> FALSE, lastStatsOutput |-> 0, statLines |-> {},
                fatalLog |-> <<>>, writeErr |-> [p \in Peers |-> 0], skipped |-> {},
                written |-> [p \in Peers |-> 0]]

(* ------------------------------ initConn ------------------------------- *)
\* frames := make(chan []byte, 10); go sender; state := new(ConnectionState);
\* rtcConn.OnConnectionStateChange(...)
MakeConn(p) ==
    /\ created' = [created EXCEPT ![p] = TRUE]
    /\ senderPc' = [senderPc EXCEPT ![p] = "recv"]

\* go func() { for { if _, _, rtcpErr := rtpSender.Read(rtcpBuf); ... } }()
StartDrain(p) == rtcpPc' = [rtcpPc EXCEPT ![p] = "read"]

\* a call of initConn that returns nil, made by the handler of some request
InitConn(p) ==
    /\ Alive
    /\ ~created[p]
    /\ MakeConn(p)
    /\ StartDrain(p)
    /\ UNCHANGED <<state, frames, chClosed, lastWritten, pending, closeCalls>>
    /\ UNCHANGED loopVars
    /\ UNCHANGED <<cancelled, events>>
    /\ UNCHANGED <<sigVars, metricVars, track>>

\* case PeerConnectionStateConnected: state.Set(Connected); then the callback
\* blocks in clientConnected <- conn until the loop receives (CallbackResume)
OnConnected(p) ==
    /\ state' = [state EXCEPT ![p] = ConnectionStateConnected]
    /\ pending' = [pending EXCEPT ![p] = @ + 1]
    /\ UNCHANGED metricVars

\* case PeerConnectionStateDisconnected: state.Set(Disconnected); currentClients.Dec()
OnDisconnected(p) ==
    /\ state' = [state EXCEPT ![p] = ConnectionStateDisconnected]
    /\ currentClients' = currentClients - 1
    /\ UNCHANGED <<pending, totalClients>>

\* case PeerConnectionStateClosed, PeerConnectionStateFailed: state.Set(Closed);
\* currentClients.Dec()
OnClosed(p) ==
    /\ state' = [state EXCEPT ![p] = ConnectionStateClosed]
    /\ currentClients' = currentClients - 1
    /\ UNCHANGED <<pending, totalClients>>

\* the callback registered with rtcConn.OnConnectionStateChange; the WebRTC
\* stack runs it for every state change it reports, each run a goroutine of its own
StateCallback(p, pcs) ==
    /\ Alive
    /\ created[p]
    /\ events' = events + 1
    /\ CASE pcs = "connected" -> OnConnected(p)
         [] pcs = "disconnected" -> OnDisconnected(p)
         [] OTHER -> OnClosed(p)
    /\ UNCHANGED <<created, frames, chClosed, senderPc, lastWritten, closeCalls>>
    /\ UNCHANGED loopVars
    /\ UNCHANGED cancelled
    /\ UNCHANGED <<rtcpPc, sigVars, track>>

\* the callback, for up to MaxEvents reports of the stack
OnConnectionStateChange(p, pcs) == events < MaxEvents /\ StateCallback(p, pcs)

\* a faulty receive: the newest frame is taken first
Dequeue_Newest(q) == [frame |-> q[Len(q)], rest |-> SubSeq(q, 1, Len(q) - 1)]

\* frame, ok := <-frames
Dequeue(q) == [frame |-> Head(q), rest |-> Tail(q)]

\* a faulty sender: a failed WriteSample makes it return
SenderStep_ErrReturn(p, err) ==
    /\ Alive
    /\ senderPc[p] = "recv"
    /\ IF Len(frames[p]) > 0
       THEN /\ frames' = [frames EXCEPT ![p] = Dequeue(frames[p]).rest]
            /\ lastWritten' = [lastWritten EXCEPT ![p] = Dequeue(frames[p]).frame]
            /\ senderPc' = [senderPc EXCEPT ![p] = IF err THEN "done" ELSE @]
       ELSE /\ ~err
            /\ chClosed[p]
            /\ senderPc' = [senderPc EXCEPT ![p] = "done"]
            /\ UNCHANGED <<frames, lastWritten>>
    /\ UNCHANGED <<created, state, chClosed, pending, closeCalls>>
    /\ UNCHANGED loopVars
    /\ UNCHANGED <<cancelled, events>>
    /\ UNCHANGED <<rtcpPc, sigVars, metricVars>>

\* one turn of the per-peer sender: for { frame, ok := <-frames; if !ok {return};
\* if err := track.WriteSample(...); err != nil { log.Error(...) } }.  err is
\* the outcome of WriteSample; the frame is taken from the queue either way.
SenderStep(p, err) ==
    /\ Alive
    /\ senderPc[p] = "recv"
    /\ IF Len(frames[p]) > 0
       THEN /\ frames' = [frames EXCEPT ![p] = Dequeue(frames[p]).rest]
            /\ lastWritten' = [lastWritten EXCEPT ![p] = Dequeue(frames[p]).frame]
            /\ UNCHANGED senderPc
       ELSE /\ ~err
            /\ chClosed[p]
            /\ senderPc' = [senderPc EXCEPT ![p] = "done"]
            /\ UNCHANGED <<frames, lastWritten>>
    /\ UNCHANGED <<created, state, chClosed, pending, closeCalls>>
    /\ UNCHANGED loopVars
    /\ UNCHANGED <<cancelled, events>>
    /\ UNCHANGED <<rtcpPc, sigVars, metricVars>>

\* the per-peer sender, its log lines not followed
Sender(p) == \E err \in BOOLEAN : SenderStep(p, err) /\ UNCHANGED track

\* signal.NotifyContext: an interrupt cancels ctx
Cancel ==
    /\ Alive
    /\ ~cancelled
    /\ cancelled' = TRUE
    /\ UNCHANGED peerVars
    /\ UNCHANGED loopVars
    /\ UNCHANGED events
    /\ UNCHANGED <<rtcpPc, sigVars, metricVars, track>>

(* --------------------------- broadcast loop ---------------------------- *)
\* a faulty registration: the peer is taken without a receive from the channel
Register_NoReceive(p) ==
    /\ clients' = (nextID :> p) @@ clients
    /\ stats' = (nextID :> [sent |-> 0, dropped |-> 0]) @@ stats
    /\ nextID' = nextID + 1
    /\ UNCHANGED <<pending, metricVars>>

\* a faulty registration: the identifier is the number of entries in the map
Register_CountID(p) ==
    /\ clients' = (Cardinality(DOMAIN clients) :> p) @@ clients
    /\ stats' = (Cardinality(DOMAIN clients) :> [sent |-> 0, dropped |-> 0]) @@ stats
    /\ nextID' = Cardinality(DOMAIN clients) + 1
    /\ pending' = [pending EXCEPT ![p] = @ - 1]
    /\ currentClients' = currentClients + 1
    /\ totalClients' = totalClients + 1

\* the rest of the CONNECTED callback, run once its send has been received:
\* currentClients.Inc(); totalClients.Inc().  Nothing but the callbacks writes
\* the two metrics, so the two increments are taken in the step of the receive.
CallbackResume ==
    /\ currentClients' = currentClients + 1
    /\ totalClients' = totalClients + 1

\* conn := <-clientConnected; clients[nextID] = conn; stats[nextID] = &clientStat{};
\* nextID++.  The receive releases the callback that was blocked in the send.
Register(p) ==
    /\ clients' = (nextID :> p) @@ clients
    /\ stats' = (nextID :> [sent |-> 0, dropped |-> 0]) @@ stats
    /\ nextID' = nextID + 1
    /\ pending' = [pending EXCEPT ![p] = @ - 1]
    /\ CallbackResume

\* a faulty start: Start is called without looking at the flag
StartCapture_Unguarded == started' = TRUE /\ running' = running + 1

\* if !started {stream.Start(); started = true}
StartCapture ==
    IF started
    THEN UNCHANGED <<started, running>>
    ELSE started' = TRUE /\ running' = running + 1

\* a faulty producer: one read and one encode for every registered peer
ReadEncode_PerPeer(out, reg) ==
    /\ produced < MaxFrames
    /\ CASE out = "startErr" ->
              /\ ~started
              /\ loopPc' = "panic"
              /\ UNCHANGED <<started, running, produced, todo>>
         [] out \in {"readErr", "encErr"} ->
              /\ StartCapture
              /\ loopPc' = "fatal"
              /\ UNCHANGED <<produced, todo>>
         [] OTHER ->
              /\ StartCapture
              /\ produced' = produced + Cardinality(DOMAIN reg)
              /\ todo' = DOMAIN reg
              /\ loopPc' = "fanout"

\* if !started {Start}; stream.Read(); opusEnc.Encode(inBuf, encBuf), and the
\* entry into: for id, conn := range clients.  Start panics on an error, a
\* failed Read or Encode ends the process through log.Fatal.  reg is the
\* registry the range runs over.
ReadEncode(out, reg) ==
    /\ produced < MaxFrames
    /\ CASE out = "startErr" ->
              /\ ~started
              /\ loopPc' = "panic"
              /\ UNCHANGED <<started, running, produced, todo>>
         [] out \in {"readErr", "encErr"} ->
              /\ StartCapture
              /\ loopPc' = "fatal"
              /\ UNCHANGED <<produced, todo>>
         [] OTHER ->
              /\ StartCapture
              /\ produced' = produced + 1
              /\ todo' = DOMAIN reg
              /\ loopPc' = "fanout"

Outcomes == {"ok", "startErr", "readErr", "encErr"}

\* if ctx.Err() != nil { return }; the deferred stream.Close() ends a running
\* capture
LoopShutdown ==
    /\ loopPc = "top"
    /\ cancelled
    /\ loopPc' = "exited"
    /\ running' = 0
    /\ UNCHANGED peerVars
    /\ UNCHANGED <<clients, stats, nextID, started, todo, produced>>
    /\ UNCHANGED <<cancelled, events>>
    /\ UNCHANGED <<rtcpPc, sigVars, metricVars, track>>

\* a faulty idle path: the capture is not aborted
LoopIdle_NoAbort ==
    /\ loopPc = "top"
    /\ ~cancelled
    /\ DOMAIN clients = {}
    /\ loopPc' = "wait"
    /\ UNCHANGED <<started, running>>
    /\ UNCHANGED peerVars
    /\ UNCHANGED <<clients, stats, nextID, todo, produced>>
    /\ UNCHANGED <<cancelled, events>>
    /\ UNCHANGED <<rtcpPc, sigVars, metricVars, track>>

\* a faulty idle path: Abort is called without looking at the flag
LoopIdle_AbortAlways ==
    /\ loopPc = "top"
    /\ ~cancelled
    /\ DOMAIN clients = {}
    /\ loopPc' = "wait"
    /\ started' = FALSE
    /\ running' = running - 1
    /\ UNCHANGED peerVars
    /\ UNCHANGED <<clients, stats, nextID, todo, produced>>
    /\ UNCHANGED <<cancelled, events>>
    /\ UNCHANGED <<rtcpPc, sigVars, metricVars, track>>

\* if len(clients) == 0 { if started { stream.Abort(); started = false } ...
\* and the loop blocks in the select
LoopIdle ==
    /\ loopPc = "top"
    /\ ~cancelled
    /\ DOMAIN clients = {}
    /\ IF started
       THEN \E err \in BOOLEAN :
               IF err
               THEN loopPc' = "panic" /\ UNCHANGED <<started, running>>
               ELSE loopPc' = "wait" /\ started' = FALSE /\ running' = running - 1
       ELSE loopPc' = "wait" /\ UNCHANGED <<started, running>>
    /\ UNCHANGED peerVars
    /\ UNCHANGED <<clients, stats, nextID, todo, produced>>
    /\ UNCHANGED <<cancelled, events>>
    /\ UNCHANGED <<rtcpPc, sigVars, metricVars, track>>

\* a faulty blocking select: it has no case for ctx.Done()
LoopWait_NoDone ==
    /\ loopPc = "wait"
    /\ \E p \in Peers, out \in Outcomes :
            /\ pending[p] > 0
            /\ Register(p)
            /\ ReadEncode(out, clients')
    /\ UNCHANGED <<created, state, frames, chClosed, senderPc, lastWritten, closeCalls>>
    /\ UNCHANGED <<cancelled, events>>
    /\ UNCHANGED <<rtcpPc, sigVars, track>>

\* select { case <-ctx.Done(): return; case conn := <-clientConnected: ... },
\* then start, read and encode
LoopWaitStep ==
    /\ loopPc = "wait"
    /\ \/ /\ cancelled
          /\ loopPc' = "exited"
          /\ running' = 0
          /\ UNCHANGED <<clients, stats, nextID, pending, started, todo, produced>>
          /\ UNCHANGED metricVars
       \/ \E p \in Peers, out \in Outcomes :
            /\ pending[p] > 0
            /\ Register(p)
            /\ ReadEncode(out, clients')
    /\ UNCHANGED <<created, state, frames, chClosed, senderPc, lastWritten, closeCalls>>
    /\ UNCHANGED <<cancelled, events>>
    /\ UNCHANGED <<rtcpPc, sigVars>>

\* the blocking select and the read, the log lines not followed
LoopWait == LoopWaitStep /\ UNCHANGED track

\* a faulty select: it has no default case and waits for a peer
Poll_Blocking == \E p \in Peers : pending[p] > 0 /\ Register(p)

\* a faulty non-blocking select: it always takes the default case
Poll_Never == UNCHANGED <<clients, stats, nextID, pending, metricVars>>

\* else { select { case conn := <-clientConnected: ...; default: } }: one
\* waiting peer is taken when there is one
Poll ==
    IF \E p \in Peers : pending[p] > 0
    THEN \E p \in Peers : pending[p] > 0 /\ Register(p)
    ELSE UNCHANGED <<clients, stats, nextID, pending, metricVars>>

\* an iteration that finds the registry non-empty: the non-blocking select,
\* then start, read and encode.  The ctx check, the select and the read are one
\* step: the read touches only the loop's own variables, and what the other
\* goroutines do between the ctx check and the select can be ordered before
\* the check (a hand-off becoming ready) or after the select (a cancellation).
LoopActiveStep ==
    /\ loopPc = "top"
    /\ ~cancelled
    /\ DOMAIN clients # {}
    /\ Poll
    /\ \E out \in Outcomes : ReadEncode(out, clients')
    /\ UNCHANGED <<created, state, frames, chClosed, senderPc, lastWritten, closeCalls>>
    /\ UNCHANGED <<cancelled, events>>
    /\ UNCHANGED <<rtcpPc, sigVars>>

\* the non-blocking select and the read, the log lines not followed
LoopActive == LoopActiveStep /\ UNCHANGED track

Without(f, id) == [i \in DOMAIN f \ {id} |-> f[i]]

\* a faulty send: a frame that finds the queue full is not counted
TrySend_Uncounted(id, p) ==
    IF Len(frames[p]) < QueueCap
    THEN /\ frames' = [frames EXCEPT ![p] = Append(@, produced)]
         /\ stats' = [stats EXCEPT ![id].sent = @ + 1]
    ELSE UNCHANGED <<frames, stats>>

\* a faulty send: the frame is counted as sent and not put on the queue
TrySend_CountOnly(id, p) ==
    /\ stats' = [stats EXCEPT ![id].sent = @ + 1]
    /\ UNCHANGED frames

\* select { case conn.frames <- encBuf[:encSize]: sent++; default: dropped++ }
TrySend(id, p) ==
    IF Len(frames[p]) < QueueCap
    THEN /\ frames' = [frames EXCEPT ![p] = Append(@, produced)]
         /\ stats' = [stats EXCEPT ![id].sent = @ + 1]
    ELSE /\ stats' = [stats EXCEPT ![id].dropped = @ + 1]
         /\ UNCHANGED frames

\* case ConnectionStateClosed: close(conn.frames); delete(stats, id); delete(clients, id)
CloseAndRemove(id, p) ==
    /\ chClosed' = [chClosed EXCEPT ![p] = TRUE]
    /\ stats' = Without(stats, id)
    /\ clients' = Without(clients, id)

\* the loop's position after the range has handled id
AfterEntry(id) == IF todo \ {id} = {} THEN "top" ELSE "fanout"

\* one iteration of: for id, conn := range clients { switch conn.state.Get() ... }
\* (Go ranges over a map in no fixed order).  The atomic load and the branch it
\* selects are one step: the branch touches only the channel and the loop's own
\* maps, which no callback writes.  close of a closed channel and a send on a
\* closed channel panic; the range stops at that entry.
LoopFanout(id) ==
    /\ loopPc = "fanout"
    /\ id \in todo
    /\ todo' = todo \ {id}
    /\ LET p == clients[id] IN
       CASE state[p] = ConnectionStateClosed ->
              /\ closeCalls' = [closeCalls EXCEPT ![p] = @ + 1]
              /\ IF chClosed[p]
                 THEN /\ loopPc' = "panic"
                      /\ UNCHANGED <<chClosed, stats, clients>>
                 ELSE /\ CloseAndRemove(id, p)
                      /\ loopPc' = AfterEntry(id)
              /\ UNCHANGED frames
         [] state[p] = ConnectionStateDisconnected ->
              /\ loopPc' = AfterEntry(id)
              /\ UNCHANGED <<frames, chClosed, stats, clients, closeCalls>>
         [] OTHER ->
              /\ IF chClosed[p]
                 THEN /\ loopPc' = "panic"
                      /\ UNCHANGED <<frames, stats>>
                 ELSE /\ TrySend(id, p)
                      /\ loopPc' = AfterEntry(id)
              /\ UNCHANGED <<chClosed, clients, closeCalls>>
    /\ UNCHANGED <<created, state, senderPc, lastWritten, pending>>
    /\ UNCHANGED <<nextID, started, running, produced>>
    /\ UNCHANGED <<cancelled, events>>
    /\ UNCHANGED <<rtcpPc, sigVars, metricVars>>

\* the range over clients takes up one of the entries it has not reached; the
\* log lines are not followed
FanoutStep == \E id \in todo : LoopFanout(id) /\ UNCHANGED track

Next ==
    \/ \E p \in Peers : InitConn(p)
    \/ \E p \in Peers, pcs \in PCS : OnConnectionStateChange(p, pcs)
    \/ \E p \in Peers : Sender(p)
    \/ Cancel
    \/ LoopShutdown
    \/ LoopIdle
    \/ LoopWait
    \/ LoopActive
    \/ FanoutStep

Spec == Init /\ [][Next]_vars

(* --------------------------- handleClient ------------------------------ *)
(* One request.  The ResponseWriter commits the status code at the first   *)
(* WriteHeader or Write: http.NotFound and http.Error call WriteHeader and *)
(* then write their text; a Write on a writer without a status commits 200;*)
(* a WriteHeader after that changes nothing.                               *)

AudioUnchanged ==
    /\ UNCHANGED <<state, frames, chClosed, lastWritten, pending, closeCalls>>
    /\ UNCHANGED loopVars
    /\ UNCHANGED <<cancelled, events>>
    /\ UNCHANGED <<metricVars, track>>

\* the handler's step touches only its position and the response
HandlerLocal ==
    /\ UNCHANGED <<created, senderPc, rtcpPc>>
    /\ AudioUnchanged
    /\ UNCHANGED <<req, reqDone, icePc, iceCount>>

Committed(code) == IF status = 0 THEN code ELSE status

\* what the body holds: JSON objects, named by their kind ("answer",
\* "candidate", "error"), and the plain text of http.Error, kept as the parts
\* it was formatted from
Object(kind) == [kind |-> kind, text |-> <<>>]
Text(parts) == [kind |-> "text", text |-> parts]

\* http.NotFound(w, r); http.Error(w, text, code)
HttpError(code, text) ==
    /\ status' = Committed(code)
    /\ body' = Append(body, Text(text))

\* w.Write(obj)
WriteObject(obj) ==
    /\ status' = Committed(200)
    /\ body' = Append(body, Object(obj))

\* enc.Encode(&v): json.Encoder marshals v and then calls w.Write once.  It
\* fails in the marshalling, before anything reached w, or in the Write, which
\* has committed the status by then; either way the object is not in the body.
EncodeOutcomes == {"ok", "marshalErr", "writeErr"}
Encode(out, obj) ==
    CASE out = "ok" -> WriteObject(obj)
      [] out = "marshalErr" -> UNCHANGED <<status, body>>
      [] OTHER -> status' = Committed(200) /\ UNCHANGED body

\* a call whose error is answered by http.Error(w, err.Error(), 500) and return
Fallible(at, next, site) ==
    /\ Alive
    /\ hPc = at
    /\ \E ok \in BOOLEAN :
          IF ok
          THEN hPc' = next /\ UNCHANGED <<status, body>>
          ELSE hPc' = site /\ HttpError(500, <<"error text">>)

\* the server calls the handler with a request
Request(m, j) ==
    /\ Alive
    /\ hPc = "none"
    /\ req' = [method |-> m, json |-> j]
    /\ hPc' = "method"
    /\ UNCHANGED <<status, body, flushed, bodyRead, gathering, icePc, iceCount, reqDone>>
    /\ UNCHANGED <<created, senderPc, rtcpPc>>
    /\ AudioUnchanged

\* if r.Method != http.MethodPost { http.NotFound(w, r); return }
HandleMethod ==
    /\ Alive
    /\ hPc = "method"
    /\ IF req.method # "POST"
       THEN hPc' = "ret404" /\ HttpError(404, <<"404 page not found">>)
       ELSE hPc' = "decode" /\ UNCHANGED <<status, body>>
    /\ UNCHANGED <<flushed, bodyRead, gathering>>
    /\ HandlerLocal

\* if err := dec.Decode(&offer); err != nil { http.Error(w, "invalid JSON: ...", 400) }
HandleDecode ==
    /\ Alive
    /\ hPc = "decode"
    /\ bodyRead' = TRUE
    /\ IF req.json # "offer"
       THEN hPc' = "ret400" /\ HttpError(400, <<"invalid JSON: ", "error text">>)
       ELSE hPc' = "newPeerConnection" /\ UNCHANGED <<status, body>>
    /\ UNCHANGED <<flushed, gathering>>
    /\ HandlerLocal

\* rtcConn, err := webrtc.NewPeerConnection(config); then iceCandidates is made
\* and the OnICECandidate callback registered
NewPeerConnection ==
    /\ Fallible("newPeerConnection", "initConn", "retNewPeerConnection")
    /\ UNCHANGED <<flushed, bodyRead, gathering>>
    /\ HandlerLocal

\* if err := initConn(log, rtcConn, clientConnected); err != nil {...}: initConn
\* fails before it made the conn (NewTrackLocalStaticSample) or after it made
\* the conn, started the sender and registered the state callback (AddTrack)
InitConnOutcomes == {"ok", "trackErr", "addTrackErr"}
HandleInitConn ==
    /\ Alive
    /\ hPc = "initConn"
    /\ \E out \in InitConnOutcomes :
         CASE out = "trackErr" ->
                /\ hPc' = "retInitConn"
                /\ HttpError(500, <<"error text">>)
                /\ UNCHANGED <<created, senderPc, rtcpPc>>
           [] out = "addTrackErr" ->
                /\ hPc' = "retInitConn"
                /\ HttpError(500, <<"error text">>)
                /\ MakeConn(ReqPeer)
                /\ UNCHANGED rtcpPc
           [] OTHER ->
                /\ hPc' = "setRemoteDescription"
                /\ UNCHANGED <<status, body>>
                /\ MakeConn(ReqPeer)
                /\ StartDrain(ReqPeer)
    /\ UNCHANGED <<flushed, bodyRead, gathering>>
    /\ AudioUnchanged
    /\ UNCHANGED <<req, reqDone, icePc, iceCount>>

\* err = rtcConn.SetRemoteDescription(offer)
SetRemoteDescription ==
    /\ Fallible("setRemoteDescription", "createAnswer", "retSetRemoteDescription")
    /\ UNCHANGED <<flushed, bodyRead, gathering>>
    /\ HandlerLocal

\* answer, err := rtcConn.CreateAnswer(nil)
CreateAnswer ==
    /\ Fallible("createAnswer", "setLocalDescription", "retCreateAnswer")
    /\ UNCHANGED <<flushed, bodyRead, gathering>>
    /\ HandlerLocal

\* err = rtcConn.SetLocalDescription(answer): "Sets the LocalDescription, and
\* starts our UDP listeners"; from here on the ICE agent gathers candidates
\* and the connection can change state
SetLocalDescription ==
    /\ Fallible("setLocalDescription", "flusher", "retSetLocalDescription")
    /\ gathering' = (hPc' = "flusher")
    /\ UNCHANGED <<flushed, bodyRead>>
    /\ HandlerLocal

\* flusher, ok := w.(http.Flusher)
Flusher ==
    /\ Fallible("flusher", "encodeAnswer", "retFlusher")
    /\ UNCHANGED <<flushed, bodyRead, gathering>>
    /\ HandlerLocal

\* a faulty answer: the handler goes on to the candidates without flushing
EncodeAnswer_NoFlush ==
    /\ Alive
    /\ hPc = "encodeAnswer"
    /\ \E out \in EncodeOutcomes :
          IF out = "ok"
          THEN hPc' = "loop" /\ Encode(out, "answer")
          ELSE /\ hPc' = "retEncodeAnswer"
               /\ status' = Committed(IF out = "marshalErr" THEN 500 ELSE 200)
               /\ body' = Append(body, Text(<<"error text">>))
    /\ UNCHANGED <<flushed, bodyRead, gathering>>
    /\ HandlerLocal

\* if err := enc.Encode(&answer); err != nil { http.Error(w, err.Error(), 500); return }
EncodeAnswer ==
    /\ Alive
    /\ hPc = "encodeAnswer"
    /\ \E out \in EncodeOutcomes :
          IF out = "ok"
          THEN hPc' = "flushAnswer" /\ Encode(out, "answer")
          ELSE /\ hPc' = "retEncodeAnswer"
               /\ status' = Committed(IF out = "marshalErr" THEN 500 ELSE 200)
               /\ body' = Append(body, Text(<<"error text">>))
    /\ UNCHANGED <<flushed, bodyRead, gathering>>
    /\ HandlerLocal

\* flusher.Flush()
Flush(next) ==
    /\ flushed' = Len(body)
    /\ hPc' = next
    /\ UNCHANGED <<status, body, bodyRead, gathering>>
    /\ HandlerLocal

FlushAnswer == Alive /\ hPc = "flushAnswer" /\ Flush("loop")

FlushCandidate == Alive /\ hPc = "flushCandidate" /\ Flush("loop")

\* case <-r.Context().Done(): return
SelectCtxDone ==
    /\ reqDone
    /\ hPc' = "retCtxDone"
    /\ UNCHANGED <<status, body, icePc>>

\* a faulty closed case: the loop goes round again
SelectClosed_Again ==
    /\ icePc = "closed"
    /\ hPc' = "loop"
    /\ UNCHANGED <<status, body, icePc>>

\* case candidate, open := <-iceCandidates: if !open { return }
SelectClosed ==
    /\ icePc = "closed"
    /\ hPc' = "retIceClosed"
    /\ UNCHANGED <<status, body, icePc>>

\* a faulty candidate case: the loop goes on after the error object
SelectCandidate_GoOn ==
    /\ icePc = "sending"
    /\ icePc' = "idle"
    /\ \E out \in EncodeOutcomes :
          IF out = "ok"
          THEN hPc' = "flushCandidate" /\ Encode(out, "candidate")
          ELSE /\ hPc' = "loop"
               /\ status' = Committed(200)
               /\ body' = Append(body, Object("error"))

\* case candidate, open := <-iceCandidates: the callback's send is received;
\* err := enc.Encode(&candidateInit); if err != nil { w.Write(error object); return }
SelectCandidate ==
    /\ icePc = "sending"
    /\ icePc' = "idle"
    /\ \E out \in EncodeOutcomes :
          IF out = "ok"
          THEN hPc' = "flushCandidate" /\ Encode(out, "candidate")
          ELSE /\ hPc' = "retCandidateError"
               /\ status' = Committed(200)
               /\ body' = Append(body, Object("error"))

\* for { select { ... } }: one of the cases that are ready
CandidateLoop ==
    /\ Alive
    /\ hPc = "loop"
    /\ (SelectCtxDone \/ SelectClosed \/ SelectCandidate)
    /\ UNCHANGED <<flushed, bodyRead, gathering>>
    /\ UNCHANGED <<created, senderPc, rtcpPc>>
    /\ AudioUnchanged
    /\ UNCHANGED <<req, reqDone, iceCount>>

\* rtcConn.OnICECandidate(func(i) { if i == nil { close(iceCandidates) } else
\* { iceCandidates <- i } }): the ICE agent calls it for one candidate after the
\* other and with nil when gathering is complete; a call with a candidate blocks
\* until the handler receives
OnICECandidate(isNil) ==
    /\ Alive
    /\ gathering
    /\ icePc = "idle"
    /\ IF isNil
       THEN icePc' = "closed" /\ UNCHANGED iceCount
       ELSE /\ iceCount < MaxCandidates
            /\ icePc' = "sending"
            /\ iceCount' = iceCount + 1
    /\ UNCHANGED <<req, hPc, status, body, flushed, bodyRead, gathering, reqDone>>
    /\ UNCHANGED <<created, senderPc, rtcpPc>>
    /\ AudioUnchanged

\* the client goes away while the handler runs: r.Context() is done
ReqContextDone ==
    /\ Alive
    /\ hPc \notin ReturnSites \cup {"none"}
    /\ ~reqDone
    /\ reqDone' = TRUE
    /\ UNCHANGED <<req, hPc, status, body, flushed, bodyRead, gathering, icePc, iceCount>>
    /\ UNCHANGED <<created, senderPc, rtcpPc>>
    /\ AudioUnchanged

\* the RTCP drain: rtpSender.Read returns an error and the goroutine returns
\* (a successful Read changes nothing)
RtcpDrain(p) ==
    /\ Alive
    /\ rtcpPc[p] = "read"
    /\ rtcpPc' = [rtcpPc EXCEPT ![p] = "done"]
    /\ UNCHANGED <<created, senderPc>>
    /\ AudioUnchanged
    /\ UNCHANGED sigVars

HandlerStep ==
    \/ \E m \in Methods, j \in Bodies : Request(m, j)
    \/ HandleMethod
    \/ HandleDecode
    \/ NewPeerConnection
    \/ HandleInitConn
    \/ SetRemoteDescription
    \/ CreateAnswer
    \/ SetLocalDescription
    \/ Flusher
    \/ EncodeAnswer
    \/ FlushAnswer
    \/ CandidateLoop
    \/ FlushCandidate

HandlerNext ==
    \/ HandlerStep
    \/ \E isNil \in BOOLEAN : OnICECandidate(isNil)
    \/ ReqContextDone
    \/ RtcpDrain(ReqPeer)

\* one request, the audio side left out
HandlerSpec == Init /\ [][HandlerNext]_vars

\* the handler runs on, and so does the ICE agent's callback
FairHandlerSpec ==
    /\ HandlerSpec
    /\ WF_vars(HandlerStep)

\* the state callback of the request's peer: the connection changes state only
\* once SetLocalDescription has started it
ReqStateChange(pcs) ==
    /\ gathering
    /\ events < SigMaxEvents
    /\ OnConnectionStateChange(ReqPeer, pcs)

\* the loop's iterations, up to SigMaxFrames reads
SigLoopWait == LoopWait /\ produced' <= SigMaxFrames
SigLoopActive == LoopActive /\ produced' <= SigMaxFrames

SigNext ==
    \/ HandlerNext
    \/ \E pcs \in PCS : ReqStateChange(pcs)
    \/ Sender(ReqPeer)
    \/ Cancel
    \/ LoopShutdown
    \/ LoopIdle
    \/ SigLoopWait
    \/ SigLoopActive
    \/ FanoutStep

\* one request together with the broadcast loop
SigSpec == Init /\ [][SigNext]_vars

(* ------------------- the loop's shutdown and the senders' end ---------- *)
\* the state callback, up to LiveMaxEvents reports
LiveStateChange(p, pcs) == events < LiveMaxEvents /\ OnConnectionStateChange(p, pcs)

\* the loop's iterations, up to LiveMaxFrames reads
LiveLoopWait == LoopWait /\ produced' <= LiveMaxFrames
LiveLoopActive == LoopActive /\ produced' <= LiveMaxFrames

LiveNext ==
    \/ \E p \in Peers : InitConn(p)
    \/ \E p \in Peers, pcs \in PCS : LiveStateChange(p, pcs)
    \/ \E p \in Peers : Sender(p)
    \/ Cancel
    \/ LoopShutdown
    \/ LoopIdle
    \/ LiveLoopWait
    \/ LiveLoopActive
    \/ FanoutStep

\* the audio side within the Live bounds
LiveSpec == Init /\ [][LiveNext]_vars

\* the loop's step ends neither in the panic of a failed Start nor in the
\* log.Fatal of a failed Read or Encode
ReadSucceeds == loopPc' \notin {"panic", "fatal"}

(* --------------------------- peers joining ------------------------------ *)
JoinStateChange(p, pcs) == events < JoinMaxEvents /\ StateCallback(p, pcs)

\* the loop's iterations, up to JoinMaxFrames reads
JoinLoopWait == LoopWait /\ produced' <= JoinMaxFrames
JoinLoopActive == LoopActive /\ produced' <= JoinMaxFrames

JoinNext ==
    \/ \E p \in Peers : InitConn(p)
    \/ \E p \in Peers, pcs \in PCS : JoinStateChange(p, pcs)
    \/ \E p \in Peers : Sender(p)
    \/ Cancel
    \/ LoopShutdown
    \/ LoopIdle
    \/ JoinLoopWait
    \/ JoinLoopActive
    \/ FanoutStep

\* the audio side within the Join bounds, under the scheduler of FairSpec
JoinSpec ==
    /\ Init /\ [][JoinNext]_vars
    /\ WF_vars(LoopShutdown)
    /\ WF_vars(LoopIdle)
    /\ WF_vars(JoinLoopWait /\ ReadSucceeds)
    /\ WF_vars(JoinLoopActive /\ ReadSucceeds)
    /\ WF_vars(FanoutStep)
    /\ \A p \in Peers : WF_vars(Sender(p))

(* ------------------------ the log of the process ------------------------ *)
(* LogSpec follows, for the one peer of a request, what the process logs.  *)
(* track.statLines holds the identifiers for                               *)
(* which the current tick has logged "statistics", track.fatalLog the      *)
(* counters logged ahead of log.Fatal, track.writeErr[p] the first frame   *)
(* for which "failed to write sample" was logged, track.written[p] the     *)
(* number of frames the sender has passed to WriteSample.  The time since  *)
(* the last statistics is not modelled: printStats takes either value.     *)

\* a report of the stack for the request's peer, up to LogMaxEvents reports
LogStateChange(pcs) == events < LogMaxEvents /\ StateCallback(ReqPeer, pcs)

\* a faulty error path: log.Fatal without the statistics
LogRead_NoStats ==
    IF loopPc' = "fanout"
    THEN \E elapsed \in BOOLEAN :
             track' = [track EXCEPT !.printStats = elapsed, !.statLines = {}]
    ELSE UNCHANGED track

\* what the step that leaves the select logs and sets:
\* on a failed Read or Encode, for id, stats := range stats { log ... "statistics" }
\* and log.Fatal; otherwise printStats := time.Since(lastStatsOutput) > time.Second*5
LogRead ==
    CASE loopPc' = "fatal" ->
           track' = [track EXCEPT !.fatalLog = stats']
      [] loopPc' = "fanout" ->
           \E elapsed \in BOOLEAN :
               track' = [track EXCEPT !.printStats = elapsed, !.statLines = {}]
      [] OTHER -> UNCHANGED track

LogLoopWait == LoopWaitStep /\ produced' <= LogMaxFrames /\ LogRead
LogLoopActive == LoopActiveStep /\ produced' <= LogMaxFrames /\ LogRead

\* what the range logs and sets for the entry id: the switch reads the state;
\* the CLOSED and the DISCONNECTED branch end in continue; past the select,
\* if printStats { log ... "statistics" }; after the last entry,
\* if printStats { lastStatsOutput = time.Now() }
LogEntry(id) ==
    LET read == state[clients[id]]
        past == read = ConnectionStateConnected /\ loopPc' # "panic"
        last == loopPc' = "top"
    IN  track' = [track EXCEPT
                    !.statLines = IF track.printStats /\ past THEN @ \cup {id} ELSE @,
                    !.lastStatsOutput = IF track.printStats /\ last THEN produced ELSE @]

LogFanoutStep == \E id \in todo : LoopFanout(id) /\ LogEntry(id)

\* the sender of the request's peer: a call of WriteSample is counted, a
\* failed one is logged
LogSender ==
    \E err \in BOOLEAN :
        /\ SenderStep(ReqPeer, err)
        /\ track' = [track EXCEPT
                        !.writeErr[ReqPeer] =
                            IF err /\ @ = 0 THEN Dequeue(frames[ReqPeer]).frame ELSE @,
                        !.written[ReqPeer] =
                            IF senderPc'[ReqPeer] = "recv" THEN @ + 1 ELSE @]

LogNext ==
    \/ InitConn(ReqPeer)
    \/ \E pcs \in PCS : LogStateChange(pcs)
    \/ LogSender
    \/ LoopIdle
    \/ LogLoopWait
    \/ LogLoopActive
    \/ LogFanoutStep

\* the audio side of one peer with its log, no shutdown
LogSpec == Init /\ [][LogNext]_vars

(* ------------------- the entries the fan-out has skipped ---------------- *)
(* SkipSpec follows, for the one peer of a request, which registry entries *)
(* the fan-out has read as DISCONNECTED: track.skipped holds their         *)
(* identifiers while they are in the registry.                             *)

SkipStateChange(pcs) == events < SkipMaxEvents /\ StateCallback(ReqPeer, pcs)
SkipLoopWait == LoopWait /\ produced' <= SkipMaxFrames
SkipLoopActive == LoopActive /\ produced' <= SkipMaxFrames

\* the entry id is noted when the switch reads ConnectionStateDisconnected
SkipEntry(id) ==
    track' = [track EXCEPT !.skipped =
                (IF state[clients[id]] = ConnectionStateDisconnected
                 THEN @ \cup {id} ELSE @) \cap DOMAIN clients']

SkipFanoutStep == \E id \in todo : LoopFanout(id) /\ SkipEntry(id)

SkipNext ==
    \/ InitConn(ReqPeer)
    \/ \E pcs \in PCS : SkipStateChange(pcs)
    \/ Sender(ReqPeer)
    \/ LoopIdle
    \/ SkipLoopWait
    \/ SkipLoopActive
    \/ SkipFanoutStep

\* the audio side of one peer with the skipped entries, no shutdown
SkipSpec == Init /\ [][SkipNext]_vars



\* the audio side under the Go scheduler, which runs every goroutine that can
\* take a step: the broadcast loop and the per-peer senders.  The WebRTC stack
\* and the operator's signal are under no such obligation, and a start, read or
\* encode that can succeed is not bound to fail: the loop is owed the step in
\* which they succeed, not the one in which they fail.
FairSpec ==
    /\ LiveSpec
    /\ WF_vars(LoopShutdown)
    /\ WF_vars(LoopIdle)
    /\ WF_vars(LiveLoopWait /\ ReadSucceeds)
    /\ WF_vars(LiveLoopActive /\ ReadSucceeds)
    /\ WF_vars(FanoutStep)
    /\ \A p \in Peers : WF_vars(Sender(p))

(* ------------------------- vocabulary of the claims -------------------- *)
\* the range over clients handles entry id in this step
Handled(id) == loopPc = "fanout" /\ id \in todo /\ id \notin todo'
\* the step puts the current frame at the tail of p's queue
Enqueued(p) == frames'[p] = Append(frames[p], produced)
QueueSame(p) == frames'[p] = frames[p]
SentInc(id) == id \in DOMAIN stats' /\ stats'[id].sent = stats[id].sent + 1
SentSame(id) == id \in DOMAIN stats' /\ stats'[id].sent = stats[id].sent
DropInc(id) == id \in DOMAIN stats' /\ stats'[id].dropped = stats[id].dropped + 1
DropSame(id) == id \in DOMAIN stats' /\ stats'[id].dropped = stats[id].dropped
\* exactly one of: enqueued and counted as sent, or counted as dropped
QueuedXorDropped(id, p) ==
    \/ Enqueued(p) /\ SentInc(id) /\ DropSame(id)
    \/ QueueSame(p) /\ DropInc(id) /\ SentSame(id)
\* the sender of p takes a frame off the queue and writes it in this step
Wrote(p) == Len(frames'[p]) = Len(frames[p]) - 1
NoneConnected == \A p \in Peers : state[p] # ConnectionStateConnected
\* handleClient has returned
HandlerDone == hPc \in ReturnSites
\* the returns that follow http.Error(w, ..., http.StatusInternalServerError)
Sites500 == {"retNewPeerConnection", "retInitConn", "retSetRemoteDescription",
             "retCreateAnswer", "retSetLocalDescription", "retFlusher",
             "retEncodeAnswer"}
\* the handler has written the answer
AnswerSent == hPc \in {"flushAnswer", "loop", "flushCandidate", "retCtxDone",
                       "retIceClosed", "retCandidateError"}
Kinds(b) == [i \in 1..Len(b) |-> b[i].kind]
\* p has an entry in the registry
Registered(p) == \E id \in DOMAIN clients : clients[id] = p

C2_Original ==
    /\ [](loopPc = "fanout" => \A id \in todo : ENABLED LoopFanout(id))
    /\ [][\A id \in DOMAIN clients : Handled(id) =>
            LET p == clients[id] IN
            /\ loopPc' \in {"fanout", "top"}
            /\ state[p] = ConnectionStateConnected =>
                 IF Len(frames[p]) < QueueCap THEN SentInc(id) ELSE DropInc(id)
            /\ \A j \in DOMAIN stats' :
                 stats'[j].sent >= stats[j].sent /\ stats'[j].dropped >= stats[j].dropped]_vars

(* -------------------------------- C3 ----------------------------------- *)
\* C3 as stated: a queue never holds more than 10 frames; a send to a queue of
\* 10 leaves it as it is and counts one drop, a send to a shorter queue appends
\* the frame and counts one sent.
C3_Original ==
    /\ [](\A p \in Peers : Len(frames[p]) <= QueueCap)
    /\ [][\A id \in DOMAIN clients :
            (Handled(id) /\ state[clients[id]] = ConnectionStateConnected) =>
               LET p == clients[id] IN
               IF Len(frames[p]) = QueueCap
               THEN QueueSame(p) /\ DropInc(id) /\ SentSame(id)
               ELSE Enqueued(p) /\ SentInc(id) /\ DropSame(id)]_vars

(* -------------------------------- C4 ----------------------------------- *)
\* C4 as stated: the production indices of the frames a sender writes are
\* strictly increasing.
C4_Original ==
    [][\A p \in Peers : Wrote(p) => Head(frames[p]) > lastWritten[p]]_vars

(* -------------------------------- C5 ----------------------------------- *)
\* C5 as stated: between two frames written one after the other to a peer no
\* produced frame is missing.
C5_Original ==
    [][\A p \in Peers : (Wrote(p) /\ lastWritten[p] # 0) =>
           Head(frames[p]) <= lastWritten[p] + 1]_vars

\* C5 amended: the frames written to a peer are frames that were produced, in
\* production order (their indices never decrease); produced frames may be
\* missing in between.
C5_InOrder ==
    [][\A p \in Peers : Wrote(p) =>
          /\ Head(frames[p]) >= lastWritten[p]
          /\ Head(frames[p]) \in 1..produced
          /\ lastWritten'[p] = Head(frames[p])]_vars

\* a sender that has written a frame is about to write one that leaves a gap
C5_Witness ==
    \E p \in Peers : /\ lastWritten[p] > 0
                     /\ frames[p] # <<>>
                     /\ Head(frames[p]) > lastWritten[p] + 1

(* -------------------------------- C6 ----------------------------------- *)
\* C6 as stated: close is called on a peer's queue at most once.
C6_Original == \A p \in Peers : closeCalls[p] <= 1

(* -------------------------------- C7 ----------------------------------- *)
\* C7 as stated: a peer is in the registry under at most one identifier.
C7_Original ==
    Alive => \A i, j \in DOMAIN clients : clients[i] = clients[j] => i = j

(* -------------------------------- C8 ----------------------------------- *)
\* C8 as stated: at most one capture session, running iff the registry is
\* non-empty.
C8_Original ==
    loopPc \in {"top", "wait", "fanout"} =>
        /\ running <= 1
        /\ (running = 1 <=> DOMAIN clients # {})

\* C8 amended: at most one capture session at any instant; while the loop is
\* blocked waiting for a peer the registry is empty and capture is not running,
\* while it fans a frame out capture is running, and once it has returned
\* capture is not running.  Between the removal of the last peer and the loop's
\* next iteration capture still runs on an empty registry.
C8_CaptureSession ==
    /\ running \in {0, 1}
    /\ (loopPc \in {"top", "wait", "fanout"} => (started <=> running = 1))
    /\ (loopPc = "wait" => DOMAIN clients = {} /\ running = 0)
    /\ (loopPc = "fanout" => running = 1)
    /\ (loopPc = "exited" => running = 0)

\* the loop is idle again after it has streamed: capture was aborted
C8_Witness == loopPc = "wait" /\ produced > 0 /\ running = 0

(* -------------------------------- C9 ----------------------------------- *)
\* C9 as stated: an iteration that begins with no peer in state CONNECTED
\* leaves capture aborted.
C9_Original ==
    [][(loopPc = "top" /\ loopPc' \in {"wait", "fanout", "exited"} /\ NoneConnected)
          => running' = 0]_vars

\* C9 amended: with an empty registry capture is not running: an iteration
\* that finds the registry empty aborts capture and reads nothing, and every
\* read is made with capture running and a peer registered.  A peer that is
\* DISCONNECTED stays registered and keeps capture running.
C9_IdleSuspend ==
    [][/\ (loopPc = "top" /\ loopPc' \in {"wait", "fanout", "exited"} /\ DOMAIN clients = {})
            => (running' = 0 /\ produced' = produced)
       /\ produced' # produced
            => (produced' = produced + 1 /\ running' = 1 /\ DOMAIN clients' # {})]_vars

\* a frame is fanned out, capture running, while no peer is CONNECTED
C9_Witness ==
    /\ loopPc = "fanout"
    /\ running = 1
    /\ NoneConnected
    /\ \E id \in todo : state[clients[id]] = ConnectionStateDisconnected

(* -------------------------------- C10 ---------------------------------- *)
\* C10 as stated: CLOSED is terminal: a state field that holds CLOSED holds
\* CLOSED ever after.
C10_Original ==
    [][\A p \in Peers : state[p] = ConnectionStateClosed
                          => state'[p] = ConnectionStateClosed]_vars

(* -------------------------------- C11 ---------------------------------- *)
\* C11: identifiers are strictly increasing and never reused: every identifier
\* in the registry is below nextID, nextID never decreases, and a step that
\* registers a peer gives it the identifier nextID, which is above every
\* identifier given out before, and moves nextID one up; entries already in
\* the registry keep their identifier and their peer.
C11_FreshIDs ==
       [][/\ nextID' >= nextID
          /\ \A id \in DOMAIN clients' : id < nextID'
          /\ \A id \in DOMAIN clients' \ DOMAIN clients :
                id = nextID /\ nextID' = nextID + 1
          /\ nextID' # nextID =>
                DOMAIN clients' = DOMAIN clients \cup {nextID}
          /\ \A id \in DOMAIN clients' \cap DOMAIN clients :
                clients'[id] = clients[id]]_vars

\* the registry became empty after identifier 0 was removed, and the peer that
\* connected again is registered under identifier 1
C11_Witness ==
    /\ DOMAIN clients = {1}
    /\ state[clients[1]] = ConnectionStateConnected
    /\ closeCalls[clients[1]] = 1

(* -------------------------------- C12 ---------------------------------- *)
\* C12 as stated: whenever a peer's state is CLOSED, eventually no registry
\* entry holds the peer and its sender has returned (or the process has ended).
C12_Original ==
    \A p \in Peers :
        [](state[p] = ConnectionStateClosed =>
             <>(\/ ~Alive
                \/ /\ \A id \in DOMAIN clients : clients[id] # p
                   /\ senderPc[p] = "done"))

(* -------------------------------- C13 ---------------------------------- *)
\* C13: once the handler has written the answer, the status is 200, the body
\* is a sequence of JSON objects, the first the answer and every later one a
\* candidate or an error object; and when a candidate is written the answer has
\* been flushed.
C13_AnswerFirst ==
    /\ [](AnswerSent =>
            /\ status = 200
            /\ Len(body) >= 1
            /\ body[1] = Object("answer")
            /\ \A i \in 2..Len(body) : body[i] \in {Object("candidate"), Object("error")})
    /\ [][(body' # body /\ body'[Len(body')] = Object("candidate")) =>
            (flushed >= 1 /\ body[1] = Object("answer") /\ body' = Append(body, Object("candidate")))]_vars

\* the answer and every candidate have been sent, gathering is complete
C13_Witness ==
    /\ hPc = "retIceClosed"
    /\ Kinds(body) = <<"answer", "candidate", "candidate">>
    /\ flushed = 3

(* -------------------------------- C14 ---------------------------------- *)
\* C14 as stated: a request that is not a POST is answered 404 with the body
\* unread; a POST whose body is not JSON is answered 400 with a text that starts
\* with "invalid JSON: "; a return after any later failure is answered 500; and
\* in none of these cases does the body hold an answer or a candidate.
C14_Original ==
    /\ [](HandlerDone /\ req.method # "POST" =>
             hPc = "ret404" /\ status = 404 /\ ~bodyRead)
    /\ [](HandlerDone /\ req.method = "POST" /\ req.json # "offer" =>
             /\ hPc = "ret400" /\ status = 400
             /\ Len(body) = 1 /\ body[1].kind = "text"
             /\ Head(body[1].text) = "invalid JSON: ")
    /\ [](hPc \in Sites500 => status = 500)
    /\ [](hPc \in Sites500 \cup {"ret404", "ret400"} =>
             \A i \in 1..Len(body) : body[i].kind \notin {"answer", "candidate"})

(* -------------------------------- C15 ---------------------------------- *)
\* C15 as stated: when the request has failed with 400 or 500, its peer is not
\* waiting in the hand-off and is not in the registry.
C15_Original ==
    (HandlerDone /\ status \in {400, 500}) =>
        (pending[ReqPeer] = 0 /\ ~Registered(ReqPeer))

(* -------------------------------- C16 ---------------------------------- *)
\* C16: a candidate that fails to encode makes the handler write one error
\* object and return: the step that receives a candidate either writes it and
\* goes on to flush, or writes the error object and returns; an error object
\* is always the last item of the body, there is at most one, and after the
\* return nothing is written.
C16_ErrorEndsStream ==
    /\ [][(hPc = "loop" /\ icePc = "sending" /\ icePc' = "idle") =>
            \/ hPc' = "flushCandidate" /\ body' = Append(body, Object("candidate"))
            \/ hPc' = "retCandidateError" /\ body' = Append(body, Object("error"))]_vars
    /\ [](\A i \in 1..Len(body) :
            body[i] = Object("error") => (i = Len(body) /\ hPc = "retCandidateError"))
    /\ [](hPc = "retCandidateError" =>
            /\ Len(body) >= 2
            /\ body[Len(body)] = Object("error"))
    /\ [][HandlerDone => (hPc' = hPc /\ body' = body /\ flushed' = flushed)]_vars

\* the second candidate failed to encode
C16_Witness ==
    /\ hPc = "retCandidateError"
    /\ Kinds(body) = <<"answer", "candidate", "error">>

(* -------------------------------- C17 ---------------------------------- *)
\* the handler is in its candidate loop
InCandidateLoop == hPc \in {"loop", "flushCandidate"}

\* C17: the candidate loop is left only through one of its three returns:
\* r.Context() done, iceCandidates closed, a candidate that failed to encode;
\* and once the context is done or the channel closed the handler returns.
C17_LoopTermination ==
    /\ [][(InCandidateLoop /\ ~InCandidateLoop') =>
            \/ hPc' = "retCtxDone" /\ reqDone
            \/ hPc' = "retIceClosed" /\ icePc = "closed"
            \/ hPc' = "retCandidateError" /\ icePc = "sending"]_vars
    /\ (InCandidateLoop /\ (reqDone \/ icePc = "closed")) ~> HandlerDone

\* the client went away while a candidate was waiting to be received
C17_Witness == hPc = "retCtxDone" /\ icePc = "sending" /\ Len(body) >= 2

(* -------------------------------- C18 ---------------------------------- *)
\* the broadcast loop goroutine is running
LoopRunning == loopPc \in {"top", "wait", "fanout"}

\* C18: once ctx is cancelled the loop eventually stops running, from the
\* blocking select as well as from an active iteration, and an iteration whose
\* ctx check sees the cancellation does nothing but return.
C18_ShutdownExit ==
    /\ cancelled ~> ~LoopRunning
    /\ [][(loopPc = "top" /\ cancelled /\ loopPc' # loopPc) =>
            (loopPc' = "exited" /\ produced' = produced /\ clients' = clients
             /\ frames' = frames /\ pending' = pending)]_vars

\* the loop has returned on cancellation after it streamed to a peer
C18_Witness == cancelled /\ loopPc = "exited" /\ produced > 0 /\ DOMAIN clients # {}

(* -------------------------------- C19 ---------------------------------- *)
\* C19 as stated: once ctx is cancelled, every sender that was created
\* eventually returns, its queue closed (or the process has ended).
C19_Original ==
    cancelled ~> (\/ ~Alive
                  \/ \A p \in Peers : created[p] => (senderPc[p] = "done" /\ chClosed[p]))

(* -------------------------------- C20 ---------------------------------- *)
\* a step of the signaling handler, its ICE callback, a connection-state
\* callback, a per-peer sender or an RTCP drain
OutsideLoopStep ==
    \/ HandlerStep
    \/ \E isNil \in BOOLEAN : OnICECandidate(isNil)
    \/ ReqContextDone
    \/ \E p \in Peers : RtcpDrain(p)
    \/ \E p \in Peers, pcs \in PCS : OnConnectionStateChange(p, pcs)
    \/ \E p \in Peers : Sender(p)

\* C20: only the broadcast loop writes the registry and the counters: every
\* step outside the loop leaves clients and stats as they are, a step that
\* changes them is a step of the loop, and a peer enters the registry in a step
\* of the loop that receives it from the hand-off channel.
C20_SoleMutator ==
    [][/\ OutsideLoopStep => UNCHANGED <<clients, stats>>
       /\ (clients' # clients \/ stats' # stats) =>
             /\ LoopRunning
             /\ UNCHANGED <<created, state, senderPc, lastWritten, rtcpPc, events, cancelled>>
             /\ UNCHANGED sigVars
       /\ \A id \in DOMAIN clients' \ DOMAIN clients :
             /\ loopPc \in {"top", "wait"}
             /\ pending[clients'[id]] > 0
             /\ pending' = [pending EXCEPT ![clients'[id]] = @ - 1]]_vars

\* the peer of the request is registered and has been sent a frame; its
\* handler has returned and its RTCP drain has ended
C20_Witness ==
    /\ Registered(ReqPeer)
    /\ HandlerDone
    /\ rtcpPc[ReqPeer] = "done"
    /\ lastWritten[ReqPeer] > 0



(* -------------------------------- C21 ---------------------------------- *)
\* no connection-state callback is blocked in the hand-off
CallbacksCompleted == \A p \in Peers : pending[p] = 0

\* the peers whose state is CONNECTED
ConnectedPeers == {p \in Peers : state[p] = ConnectionStateConnected}

\* C21: whenever every connection-state callback has completed, the gauge
\* streama_current_clients equals the number of peers whose state is CONNECTED,
\* and it is never negative.
C21_Original ==
    /\ currentClients >= 0
    /\ CallbacksCompleted => currentClients = Cardinality(ConnectedPeers)


(* -------------------------------- C22 ---------------------------------- *)
\* the loop passes from its select to the fan-out: the read and the encode of
\* an iteration have succeeded
ReadDone == loopPc \in {"top", "wait"} /\ loopPc' = "fanout"

\* C22: the frame count rises by one exactly in the step in which an iteration
\* gets through its read and encode, however many peers are registered or
\* waiting; the fan-out produces nothing, and what it puts on a queue is the
\* one frame of its iteration.
C22_SingleProducer ==
    [][/\ ReadDone => produced' = produced + 1
       /\ ~ReadDone => produced' = produced
       /\ \A p \in Peers : frames'[p] = frames[p] \/ Wrote(p) \/ Enqueued(p)]_vars

\* the second iteration has made the second frame with two peers in the registry
C22_Witness == loopPc = "fanout" /\ Cardinality(todo) = 2 /\ produced = 2


(* -------------------------------- C23 ---------------------------------- *)
\* A queue holds slices encBuf[:encSize]: a slice shares the one array made by
\* encBuf := make([]byte, 1024), and every Encode writes into that array.  An
\* entry of frames[p] is the tick in which the slice was sent; the bytes read
\* through it are what the array holds at the time of the read.  EncBufReads
\* is the set of results such a read can have, each given as the set of ticks
\* whose encode the bytes come from: the latest encode, or, since the sender
\* reads without synchronisation while the loop may be writing, a mix of the
\* latest and the next one.
EncBufReads ==
    {{produced}} \cup
        (IF loopPc \in {"top", "wait"} THEN {{produced, produced + 1}} ELSE {})

\* C23: the bytes a sender writes for a dequeued frame are the bytes of the
\* encode of the tick in which the frame was enqueued.
C23_Original ==
    [][\A p \in Peers :
          Wrote(p) => \A bytes \in EncBufReads : bytes = {Head(frames[p])}]_vars


(* -------------------------------- C24 ---------------------------------- *)
\* C24: an entry the fan-out reads as DISCONNECTED is skipped: nothing is put
\* on its queue, no counter changes, its queue is not closed and it stays in
\* the registry; an entry leaves the registry only when it is read as CLOSED;
\* and an entry that was skipped and is later read as CONNECTED gets the frame
\* of that fan-out (on its queue, or counted as dropped when the queue is full).
C24_Original ==
    [][\A id \in DOMAIN clients :
          LET p == clients[id] IN
          /\ Handled(id) /\ state[p] = ConnectionStateDisconnected
                => /\ QueueSame(p)
                   /\ stats' = stats
                   /\ chClosed' = chClosed
                   /\ clients' = clients
          /\ id \notin DOMAIN clients'
                => Handled(id) /\ state[p] = ConnectionStateClosed
          /\ Handled(id) /\ id \in track.skipped /\ state[p] = ConnectionStateConnected
                => QueuedXorDropped(id, p)]_vars


(* -------------------------------- C25 ---------------------------------- *)
\* the number of callbacks blocked in the hand-off
PendingCount == Cardinality(UNION {{<<p, i>> : i \in 1..pending[p]} : p \in Peers})

\* the loop has an iteration left, within JoinMaxFrames, for every hand-off
\* that is waiting and every one the stack can still start
IterationsLeft == produced + PendingCount + (JoinMaxEvents - events) <= JoinMaxFrames

\* shutdown has been asked for, or the process has died
ShutdownOrFatal == cancelled \/ ~Alive

\* C25: absent shutdown and fatal errors, a callback blocked in the hand-off
\* is eventually released by the loop's receive, also with several callbacks
\* blocked at once, and a registered entry whose peer is CONNECTED eventually
\* has a frame sent to the queue, unless the peer leaves CONNECTED first.
C25_HandOffCompletes ==
    /\ \A p \in Peers :
          (pending[p] > 0 /\ IterationsLeft) ~> (pending[p] = 0 \/ ShutdownOrFatal)
    /\ \A id \in 0..(JoinMaxEvents - 1) :
          (/\ id \in DOMAIN clients
           /\ state[clients[id]] = ConnectionStateConnected
           /\ (loopPc = "fanout" /\ id \in todo) \/ produced < JoinMaxFrames)
          ~> (\/ ShutdownOrFatal
              \/ id \notin DOMAIN clients
              \/ state[clients[id]] # ConnectionStateConnected
              \/ stats[id].sent > 0)

\* both peers connected at the same time; each has been registered and sent a frame
C25_Witness ==
    /\ \A p \in Peers :
          \E id \in DOMAIN clients : clients[id] = p /\ stats[id].sent > 0
    /\ CallbacksCompleted
    /\ events = 2
    /\ produced = 2


(* -------------------------------- C26 ---------------------------------- *)
\* an iteration that found the registry non-empty leaves its select
ActiveSelect == loopPc = "top" /\ DOMAIN clients # {} /\ loopPc' # "top"

\* C26: in an iteration that starts with a non-empty registry, every peer
\* waiting on the hand-off channel is registered before the read.
C26_Original ==
    [][ActiveSelect /\ loopPc' \in {"fanout", "fatal"}
          => \A p \in Peers : pending[p] > 0 => pending'[p] = 0]_vars

\* C26 amended: in an iteration that starts with a non-empty registry the
\* select never blocks, and it takes exactly one waiting callback when there
\* is one and none otherwise: the others go on waiting.
C26_PollOne ==
    /\ [][ActiveSelect /\ loopPc' # "exited"
            => LET n == IF PendingCount > 0 THEN 1 ELSE 0 IN
               /\ PendingCount' = PendingCount - n
               /\ nextID' = nextID + n
               /\ Cardinality(DOMAIN clients') = Cardinality(DOMAIN clients) + n]_vars
    /\ [](loopPc = "top" /\ ~cancelled /\ DOMAIN clients # {} /\ produced < LiveMaxFrames
            => ENABLED LiveLoopActive)

\* an iteration has registered a second entry while another callback waits
C26_Witness ==
    /\ loopPc = "fanout"
    /\ todo = DOMAIN clients
    /\ Cardinality(todo) = 2
    /\ PendingCount > 0
    /\ events = 3


(* -------------------------------- C27 ---------------------------------- *)
\* the loop leaves its select towards stream.Read
ReadAttempt == loopPc \in {"top", "wait"} /\ loopPc' \in {"fanout", "fatal"}

\* C27: a read is made only with capture started; Start is called only with
\* capture not running, in a step that goes on to the read; Abort is called
\* only with capture running and the registry empty, on the way to the idle
\* select; so capture is started and aborted in turn, beginning with a start.
\* (The deferred stream.Close() ends a running capture when the loop returns.)
C27_CaptureProtocol ==
    [][/\ running \in {0, 1} /\ running' \in {0, 1}
       /\ ReadAttempt => started' /\ running' = 1
       /\ produced' # produced => ReadAttempt
       /\ running' > running => ~started /\ started' /\ ReadAttempt
       /\ running' < running =>
             \/ /\ started /\ ~started'
                /\ loopPc = "top" /\ loopPc' = "wait"
                /\ DOMAIN clients = {}
             \/ loopPc' = "exited"
       /\ started' # started => running' # running]_vars

\* capture has been started a second time: the first entry was closed in the
\* second tick, the loop went idle, and the third tick began with the hand-off
\* of the other peer
C27_Witness ==
    \E p, q \in Peers :
        /\ p # q
        /\ loopPc = "fanout" /\ running = 1
        /\ produced = 3 /\ events = 3
        /\ clients = (1 :> q) /\ todo = {1} /\ stats[1].sent = 0
        /\ closeCalls[p] = 1
        /\ lastWritten[p] < 2
        /\ \A i \in 1..Len(frames[p]) : frames[p][i] < 2


(* -------------------------------- C28 ---------------------------------- *)
\* C28: the step in which a Read or an Encode fails logs the counters of every
\* entry of the registry, puts no frame on any queue and changes no counter,
\* and the process takes no step after it.
C28_FatalRead ==
    /\ [][loopPc' = "fatal" =>
            /\ ReadAttempt
            /\ DOMAIN track'.fatalLog = DOMAIN clients'
            /\ \A id \in DOMAIN clients' : track'.fatalLog[id] = stats'[id]
            /\ \A id \in DOMAIN stats : stats'[id] = stats[id]
            /\ frames' = frames
            /\ produced' = produced]_vars
    /\ [][loopPc # "fatal"]_vars

\* a read has failed with two entries in the registry, one of them with sent frames
C28_Witness ==
    /\ loopPc = "fatal"
    /\ Cardinality(DOMAIN clients) = 2
    /\ \E id \in DOMAIN stats : stats[id].sent > 0
    /\ track.fatalLog = stats


(* -------------------------------- C29 ---------------------------------- *)
\* the sender of p logs "failed to write sample" in this step
WriteFailed(p) == track'.writeErr[p] # track.writeErr[p]

\* C29: a failed WriteSample takes the frame off the queue and leaves the
\* sender in its loop, the peer's state, the registry and the counters as they
\* are, and the process alive; the sender returns only on a queue that is
\* closed and empty.
C29_WriteErrorGoesOn ==
    [][\A p \in Peers :
          /\ WriteFailed(p) =>
                /\ Wrote(p)
                /\ senderPc'[p] = "recv"
                /\ UNCHANGED <<state, chClosed, clients, stats, loopPc>>
          /\ senderPc[p] = "recv" /\ senderPc'[p] = "done" =>
                chClosed[p] /\ frames[p] = <<>>]_vars

\* the sender has written a later frame after a write that failed
C29_Witness ==
    /\ track.writeErr[ReqPeer] > 0
    /\ lastWritten[ReqPeer] > track.writeErr[ReqPeer]
    /\ senderPc[ReqPeer] = "recv"


(* -------------------------------- C30 ---------------------------------- *)
\* the range of a tick with printStats set reaches its end
StatsTickEnds == loopPc = "fanout" /\ loopPc' = "top" /\ track.printStats

\* C30: at the end of a tick in which the interval has elapsed, a statistics
\* line has been logged for every entry left in the registry, and the time of
\* the last emission is set to this tick.
C30_Original ==
    [][StatsTickEnds =>
          /\ track'.statLines = DOMAIN clients'
          /\ track'.lastStatsOutput = produced]_vars


(* -------------------------------- C33 ---------------------------------- *)
\* C33: a peer whose queue has been closed is not in the registry, and the
\* fan-out never reaches its send with an entry whose queue is closed.
C33_Original ==
    /\ [](\A p \in Peers : chClosed[p] => ~Registered(p))
    /\ [][\A id \in DOMAIN clients :
            Handled(id) /\ state[clients[id]] = ConnectionStateConnected
                => ~chClosed[clients[id]]]_vars

(* -------------------------------- C34 ---------------------------------- *)
\* C34: a call of the ICE-candidate callback that pushes a candidate returns:
\* its send on iceCandidates is eventually received.
C34_Original == (icePc = "sending") ~> (icePc # "sending")


(* -------------------------------- C35 ---------------------------------- *)
\* C35: a CONNECTED callback that is blocked in the hand-off when the loop has
\* returned on cancellation still completes.
C35_Original ==
    \A p \in Peers : (loopPc = "exited" /\ pending[p] > 0) ~> (pending[p] = 0)

(* -------------------------------- C31 ---------------------------------- *)
\* C31: streama_total_clients changes only by one, in the step that completes
\* the hand-off of one CONNECTED report, and every CONNECTED report is counted
\* in the end (unless the process dies first): the counter comes to equal the
\* number of CONNECTED reports.
C31_Original ==
    /\ [][totalClients' # totalClients =>
            totalClients' = totalClients + 1 /\ PendingCount' = PendingCount - 1]_vars
    /\ \A p \in Peers :
          (pending[p] > 0 /\ IterationsLeft) ~> (pending[p] = 0 \/ ~Alive)


(* -------------------------------- C32 ---------------------------------- *)
RECURSIVE SumSent(_, _)
\* the sent counters of the entries in ids that belong to p, added up
SumSent(ids, p) ==
    IF ids = {} THEN 0
    ELSE LET id == CHOOSE i \in ids : TRUE IN
         (IF clients[id] = p THEN stats[id].sent ELSE 0) + SumSent(ids \ {id}, p)

\* the frames counted as sent to p by the entries now in the registry
SentSum(p) == SumSent(DOMAIN clients, p)

\* the frames that have gone through p's queue or are in it
Passed(p) == track.written[p] + Len(frames[p])

\* C32: at every moment the sent counters of a peer's registry entries add
\* up to the frames its sender has dequeued plus the frames in its queue.
C32_Original == \A p \in Peers : SentSum(p) = Passed(p)

\* C32 amended: the equality holds for a peer as long as none of its entries
\* has been removed; a removed entry's counter is deleted with it, and the
\* counters that remain add up to no more than what has passed through the
\* queue.  A closed queue only shrinks, by the sender's writes, and the sender
\* returns only when the queue is closed and empty.
C32_Conservation ==
    /\ [](\A p \in Peers :
            /\ SentSum(p) <= Passed(p)
            /\ closeCalls[p] = 0 => SentSum(p) = Passed(p)
            /\ senderPc[p] = "done" => chClosed[p] /\ frames[p] = <<>>)
    /\ [][\A p \in Peers :
            chClosed[p] /\ frames'[p] # frames[p]
                => Wrote(p) /\ track'.written[p] = track.written[p] + 1]_vars

\* two frames were sent to the peer, its entry was removed with one of them
\* still queued, and the sender has written both and returned
C32_Witness ==
    /\ senderPc[ReqPeer] = "done"
    /\ track.written[ReqPeer] = 2
    /\ lastWritten[ReqPeer] = 2
    /\ DOMAIN clients = {}
    /\ nextID = 1

=============================================================================
